---- MODULE Spec2Model ----
(***************************************************************************)
(* Model of lib/convert.py (class Converter): the queue-consuming worker   *)
(* loop `process` and the per-frame compositing pipeline `patch_image`.    *)
(*                                                                         *)
(* Arrays are sequences of rows of pixels of channel values: img[y][x][c]. *)
(* 8-bit buffers hold integers 0..255.  Floating-point buffers hold        *)
(* integers in units of 1/Unit (fixed point, every product and quotient    *)
(* rounded to the nearest unit), so 1.0 is Unit and v/255.0 is exact.      *)
(***************************************************************************)
EXTENDS Integers, Sequences, FiniteSets, TLC

VARIABLES
    cfg,           \* the Converter instance: constructor arguments (immutable)
    in_queue,      \* process: the shared FIFO in_queue
    out_queue,     \* process: the shared FIFO out_queue, pairs <<filename, image>>
    pc,            \* process: where each worker stands: "get", "got", "done"
    item,          \* process: the local `item` of each worker
    popped,        \* history: how often each filename was got from in_queue
    work,          \* history: the work items the producer placed on in_queue
    converted,     \* lines 68-74 tabulated: for each work item, whether
                   \* patch_image raises on it and the image that is emitted
    stage,         \* patch_image: the statement the pipeline stands at
    predicted,     \* patch_image: its argument
    placeholder,   \* get_new_image: the 4-channel working buffer
    face_i,        \* get_new_image: number of (swapped, detected) pairs consumed
    patched_face,  \* patch_image: the frame after blending / scaling / quantizing
    dims           \* scale_image: the dsize handed to cv2.resize (<<>> if none)

wvars == <<in_queue, out_queue, pc, item, popped, work, converted>>
pvars == <<stage, predicted, placeholder, face_i, patched_face, dims>>
vars == <<cfg, in_queue, out_queue, pc, item, popped, work, converted,
          stage, predicted, placeholder, face_i, patched_face, dims>>

----------------------------------------------------------------------------
(* Bounds of the model *)
MaxItems == 2      \* work items placed on in_queue before the sentinel
MaxWorkers == 2    \* workers sharing the queues
MaxFaces == 2      \* entries of swapped_faces / detected_faces
MaxW == 2          \* frame width
MaxH == 1          \* frame height

(* Program constants *)
MaxVal == 255               \* the 8-bit white level
Unit == 2 * MaxVal          \* fixed-point denominator: 1.0 == Unit
Half == Unit \div 2

None == "None"
EOF == [filename |-> "EOF"]

----------------------------------------------------------------------------
(* Arithmetic *)

Min(a, b) == IF a < b THEN a ELSE b
Max(a, b) == IF a > b THEN a ELSE b

\* Python's round() and numpy's rint() of n/d (d > 0): nearest, ties to even.
RoundHalfEven(n, d) ==
    LET q == n \div d
        r == n - q * d
    IN  IF 2 * r < d THEN q
        ELSE IF 2 * r > d THEN q + 1
        ELSE IF q % 2 = 0 THEN q ELSE q + 1

\* a * b of two fixed-point values
Mul(a, b) == RoundHalfEven(a * b, Unit)

\* np.clip(v, 0.0, 1.0) on one value
Clip01(v) == Max(0, Min(Unit, v))

RECURSIVE SumSeq(_)
SumSeq(s) == IF s = <<>> THEN 0 ELSE Head(s) + SumSeq(Tail(s))

----------------------------------------------------------------------------
(* Arrays *)

Height(img) == Len(img)
Width(img) == Len(img[1])
Channels(img) == Len(img[1][1])

\* np.clip(img, 0.0, 1.0)
ClipImage(img) ==
    [y \in 1..Height(img) |->
        [x \in 1..Width(img) |->
            [c \in 1..Channels(img) |-> Clip01(img[y][x][c])]]]

\* img[:, :, :n]
FirstChannels(img, n) ==
    [y \in 1..Height(img) |->
        [x \in 1..Width(img) |-> SubSeq(img[y][x], 1, Min(n, Channels(img)))]]

\* np.concatenate((a, b), axis=-1)
ConcatChannels(a, b) ==
    [y \in 1..Height(a) |-> [x \in 1..Width(a) |-> a[y][x] \o b[y][x]]]

\* img / 255.0 for an 8-bit img
Normalize(img) ==
    [y \in 1..Height(img) |->
        [x \in 1..Width(img) |->
            [c \in 1..Channels(img) |-> (img[y][x][c] * Unit) \div MaxVal]]]

\* np.zeros((h, w, 1))
Zeros(h, w) == [y \in 1..h |-> [x \in 1..w |-> <<0>>]]

\* every value of a float buffer lies in [0.0, 1.0]
InUnitRange(img) ==
    \A y \in 1..Height(img) : \A x \in 1..Width(img) :
        \A c \in 1..Channels(img) : img[y][x][c] >= 0 /\ img[y][x][c] <= Unit

IsByteImage(img) ==
    \A y \in 1..Height(img) : \A x \in 1..Width(img) :
        \A c \in 1..Channels(img) : img[y][x][c] \in 0..MaxVal

----------------------------------------------------------------------------
(* External collaborators: the adjustment plugins, the default landmark    *)
(* mask and the writer's pre-encode hook.  Only their call contracts are    *)
(* fixed; each is given one concrete behaviour that honours the contract.   *)

\* Box stage, configured "none": run(face) -> face, a pass-through
BoxRun(new_face) == new_face

\* Mask stage: run(detected_face, predicted_mask) -> (mask, raw_mask), both
\* patch-sized single-channel maps; the raw one is not clamped
MaskRun(detected_face, predicted_mask) ==
    [mask |-> detected_face.mask, raw_mask |-> detected_face.mask]

\* mean of channel c over a patch
ChannelMean(img, c) ==
    SumSeq([y \in 1..Height(img) |->
               SumSeq([x \in 1..Width(img) |-> img[y][x][c]])])
        \div (Height(img) * Width(img))

\* Color stage: run(old_face, new_face, raw_mask) -> new_face, shifting each
\* colour channel by the difference of the two patches' means
ColorRun(old_face, new_face, raw_mask) ==
    [y \in 1..Height(new_face) |->
        [x \in 1..Width(new_face) |->
            [c \in 1..Channels(new_face) |->
                IF c <= 3
                THEN new_face[y][x][c]
                         + ChannelMean(old_face, c) - ChannelMean(new_face, c)
                ELSE new_face[y][x][c]]]]

\* Scaling stage: run(frame) -> frame, a sharpening filter (kernel -1 3 -1
\* along each row, the border pixel repeated) applied to every channel
ScalingRun(new_image) ==
    [y \in 1..Height(new_image) |->
        [x \in 1..Width(new_image) |->
            [c \in 1..Channels(new_image) |->
                3 * new_image[y][x][c]
                  - new_image[y][Max(1, x - 1)][c]
                  - new_image[y][Min(Width(new_image), x + 1)][c]]]]

\* model_masks default mask: mask_type(landmarks, frame, channels=1).mask,
\* 1.0 inside the bounding box of the landmarks and 0.0 outside
DefaultMask(landmarks, frame) ==
    [y \in 1..Height(frame) |->
        [x \in 1..Width(frame) |->
            IF /\ \E p \in 1..Len(landmarks) : landmarks[p][1] <= x - 1
               /\ \E p \in 1..Len(landmarks) : landmarks[p][1] >= x - 1
               /\ \E p \in 1..Len(landmarks) : landmarks[p][2] <= y - 1
               /\ \E p \in 1..Len(landmarks) : landmarks[p][2] >= y - 1
            THEN <<Unit>> ELSE <<0>>]]

\* the pre-encode hook: (frame) -> encoded frame, a header with the shape
\* followed by the pixel rows
PreEncodeHook(frame) ==
    << << <<Height(frame), Width(frame), Channels(frame)>> >> >> \o frame

----------------------------------------------------------------------------
(* OpenCV operations called by the pipeline *)

\* cv2.warpAffine(src, M, frame_size, dst, WARP_INVERSE_MAP | interp,
\* BORDER_TRANSPARENT) for an integer matrix M: the destination pixel (x, y)
\* takes the source pixel M.(x, y, 1) when that lies inside src and is left
\* as it was in dst otherwise.  Pixel coordinates are 0-based.
WarpSource(M, x, y) ==
    <<M[1][1] * (x - 1) + M[1][2] * (y - 1) + M[1][3],
      M[2][1] * (x - 1) + M[2][2] * (y - 1) + M[2][3]>>

InFootprint(src, M, x, y) ==
    LET s == WarpSource(M, x, y)
    IN  /\ s[1] >= 0 /\ s[1] < Width(src)
        /\ s[2] >= 0 /\ s[2] < Height(src)

\* the warp with a constant border: pixels outside the footprint are zeroed
WarpAffineConstantBorder(src, M, frame_size, dst) ==
    [y \in 1..frame_size[2] |->
        [x \in 1..frame_size[1] |->
            IF InFootprint(src, M, x, y)
            THEN LET s == WarpSource(M, x, y) IN src[s[2] + 1][s[1] + 1]
            ELSE [c \in 1..Channels(dst) |-> 0]]]

WarpAffine(src, M, frame_size, dst) ==
    [y \in 1..frame_size[2] |->
        [x \in 1..frame_size[1] |->
            IF InFootprint(src, M, x, y)
            THEN LET s == WarpSource(M, x, y) IN src[s[2] + 1][s[1] + 1]
            ELSE dst[y][x]]]

\* INTER_CUBIC along one line: the value of destination sample d (1-based)
\* of dn samples.  The source position is fx = (d - 1/2) * n/dn - 1/2 with
\* n = Len(line); the four taps around floor(fx) are weighted by the cubic
\* kernel (A = -3/4) and taps outside the line repeat its border sample.
\* With x = p/q the fractional part, the weights over 4q^3 are
\*   -3p(q-p)^2, (5p-9q)p^2 + 4q^3, (5(q-p)-9q)(q-p)^2 + 4q^3, -3(q-p)p^2.
CubicSample(line, d, dn) ==
    LET n   == Len(line)
        q   == 2 * dn
        num == (2 * d - 1) * n - dn
        sx  == num \div q
        p   == num - sx * q
        den == 4 * q * q * q
        w   == << 0 - 3 * p * (q - p) * (q - p),
                  (5 * p - 9 * q) * p * p + den,
                  (5 * (q - p) - 9 * q) * (q - p) * (q - p) + den,
                  0 - 3 * (q - p) * p * p >>
        tap(k) == line[Max(1, Min(n, sx + k - 1))]
    IN  RoundHalfEven(SumSeq([k \in 1..4 |-> w[k] * tap(k)]), den)

\* INTER_AREA along one line (dn <= n): destination sample d averages the
\* source samples it covers, each weighted by the length of the overlap
AreaSample(line, d, dn) ==
    LET n == Len(line)
        overlap(k) == Max(0, Min(d * n, k * dn) - Max((d - 1) * n, (k - 1) * dn))
    IN  RoundHalfEven(SumSeq([k \in 1..n |-> overlap(k) * line[k]]), n)

Sample(interp, line, d, dn) ==
    IF interp = "INTER_CUBIC" THEN CubicSample(line, d, dn)
    ELSE AreaSample(line, d, dn)

\* cv2.resize(frame, dsize, interpolation=interp): rows first, then columns
Resize(frame, dsize, interp) ==
    LET rows == [y \in 1..Height(frame) |->
                    [x \in 1..dsize[1] |->
                        [c \in 1..Channels(frame) |->
                            Sample(interp,
                                   [k \in 1..Width(frame) |-> frame[y][k][c]],
                                   x, dsize[1])]]]
    IN  [y \in 1..dsize[2] |->
            [x \in 1..dsize[1] |->
                [c \in 1..Channels(frame) |->
                    Sample(interp,
                           [k \in 1..Height(frame) |-> rows[k][x][c]],
                           y, dsize[2])]]]

----------------------------------------------------------------------------
(* class Converter *)

\* __init__: self.scale = arguments.output_scale / 100, kept as the percentage
ScaleIsOne(self) == self.output_scale = 100
ScaleAboveOne(self) == self.output_scale > 100

\* load_plugins: the adjustment stages, None where none is loaded
Adjustments(self) ==
    [box      |-> "box_blend",
     mask     |-> "mask_blend",
     color    |-> IF self.color_adjustment # "none" /\ self.color_adjustment # None
                  THEN self.color_adjustment ELSE None,
     seamless |-> None,
     scaling  |-> IF self.scaling # "none" /\ self.scaling # None
                  THEN self.scaling ELSE None]

\* results of a call that may raise
Returned(v) == [raised |-> FALSE, value |-> v]
Raised == [raised |-> TRUE, value |-> <<>>]

\* get_image_mask
GetImageMask(new_face, detected_face, predicted_mask) ==
    LET m == MaskRun(detected_face, predicted_mask)
        merged ==
            IF Channels(new_face) = 4
            THEN [y \in 1..Height(new_face) |->
                    [x \in 1..Width(new_face) |->
                        SubSeq(new_face[y][x], 1, 3)
                            \o <<Min(new_face[y][x][4], m.mask[y][x][1])>>]]
            ELSE ConcatChannels(new_face, m.mask)
    IN  [new_face |-> ClipImage(merged), raw_mask |-> m.raw_mask]

\* pre_warp_adjustments
PreWarpAdjustments(self, old_face, new_face, detected_face, predicted_mask) ==
    LET boxed   == BoxRun(new_face)
        masked  == GetImageMask(boxed, detected_face, predicted_mask)
        colored == IF Adjustments(self).color # None
                   THEN ColorRun(old_face, masked.new_face, masked.raw_mask)
                   ELSE masked.new_face
    IN  colored

\* get_new_image, lines 103-106: the normalised frame with a zero alpha channel
NewPlaceholder(pred, frame_size) ==
    ConcatChannels(Normalize(pred.image), Zeros(frame_size[2], frame_size[1]))

\* get_new_image, lines 109-114: the 4-channel patch handed to the warp
AdjustedFace(self, new_face, detected_face) ==
    LET predicted_mask ==
            IF Channels(new_face) = 4
            THEN [y \in 1..Height(new_face) |->
                    [x \in 1..Width(new_face) |-> <<new_face[y][x][4]>>]]
            ELSE <<>>
        rgb == FirstChannels(new_face, 3)
    IN  PreWarpAdjustments(self, detected_face.reference_face, rgb,
                           detected_face, predicted_mask)

\* get_new_image, one pass of the loop over zip(swapped_faces, detected_faces)
CompositeFace(self, ph, new_face, detected_face, frame_size) ==
    ClipImage(WarpAffine(AdjustedFace(self, new_face, detected_face),
                         detected_face.reference_matrix, frame_size, ph))

\* zip(swapped_faces, detected_faces) stops at the shorter sequence
ZipLen(pred) == Min(Len(pred.swapped_faces), Len(pred.detected_faces))

RECURSIVE CompositeFaces(_, _, _, _, _)
CompositeFaces(self, ph, pred, i, frame_size) ==
    IF i > ZipLen(pred) THEN ph
    ELSE CompositeFaces(self, 
            CompositeFace(self, ph, pred.swapped_faces[i], pred.detected_faces[i],
                          frame_size),
            pred, i + 1, frame_size)

\* get_new_image
GetNewImage(self, pred, frame_size) ==
    IF pred.fault = "get_new_image" THEN Raised
    ELSE Returned(CompositeFaces(self, NewPlaceholder(pred, frame_size), pred, 1,
                                 frame_size))

\* cv2.bitwise_or of two masks holding 0.0 or 1.0
BitwiseOr(a, b) ==
    [y \in 1..Height(a) |->
        [x \in 1..Width(a) |-> <<Max(a[y][x][1], b[y][x][1])>>]]

RECURSIVE UnionMasks(_, _, _, _)
UnionMasks(final_mask, faces, i, frame) ==
    IF i > Len(faces) THEN final_mask
    ELSE UnionMasks(
            BitwiseOr(final_mask, DefaultMask(faces[i].landmarks_as_xy, frame)),
            faces, i + 1, frame)

\* add_alpha_mask
AddAlphaMask(self, frame, pred) ==
    IF ~self.draw_transparent THEN frame
    ELSE ConcatChannels(frame,
            UnionMasks(Zeros(Height(frame), Width(frame)),
                       pred.detected_faces, 1, frame))

\* the blend without the background term
PostWarpForegroundOnly(self, pred, new_image0) ==
    IF pred.fault = "post_warp_adjustments" THEN Raised
    ELSE Returned(ClipImage(AddAlphaMask(self, 
            [y \in 1..Height(new_image0) |->
                [x \in 1..Width(new_image0) |->
                    [c \in 1..3 |->
                        Mul(new_image0[y][x][c], new_image0[y][x][4])]]],
            pred)))

\* post_warp_adjustments
PostWarpAdjustments(self, pred, new_image0) ==
    IF pred.fault = "post_warp_adjustments" THEN Raised
    ELSE
    LET new_image == IF Adjustments(self).scaling # None
                     THEN ScalingRun(new_image0) ELSE new_image0
        bg == Normalize(pred.image)
        frame ==
            [y \in 1..Height(new_image) |->
                [x \in 1..Width(new_image) |->
                    [c \in 1..3 |->
                        LET mask == new_image[y][x][4]
                        IN  Mul(new_image[y][x][c], mask)
                                + Mul(bg[y][x][c], Unit - mask)]]]
    IN  Returned(ClipImage(AddAlphaMask(self, frame, pred)))

\* scale_image, line 199-200: dims, (width, height)
ScaleDims(self, frame) ==
    <<RoundHalfEven(Width(frame) * self.output_scale, 100),
      RoundHalfEven(Height(frame) * self.output_scale, 100)>>

\* scale_image; cv2.resize raises on an empty dsize
ScaleImage(self, pred, frame) ==
    IF ScaleIsOne(self) THEN Returned(frame)
    ELSE IF pred.fault = "scale_image" THEN Raised
    ELSE LET interp == IF ScaleAboveOne(self) THEN "INTER_CUBIC" ELSE "INTER_AREA"
             d == ScaleDims(self, frame)
         IN  IF d[1] <= 0 \/ d[2] <= 0 THEN Raised
             ELSE Returned(Resize(frame, d, interp))

\* the conversions a float -> uint8 cast of an out-of-range value may take
CastModes == {"wrap", "saturate"}

\* .astype("uint8") of an integral float r
CastUint8(r, cast) ==
    IF r >= 0 /\ r <= MaxVal THEN r
    ELSE IF cast = "wrap" THEN r % (MaxVal + 1)
    ELSE Max(0, Min(MaxVal, r))

\* patch_image, line 92: np.rint(patched_face * 255.0).astype("uint8")
Quantize(pred, frame, cast) ==
    IF pred.fault = "quantize" THEN Raised
    ELSE Returned(
        [y \in 1..Height(frame) |->
            [x \in 1..Width(frame) |->
                [c \in 1..Channels(frame) |->
                    CastUint8(RoundHalfEven(frame[y][x][c] * MaxVal, Unit),
                              cast)]]])

\* patch_image, lines 93-94
PreEncode(self, pred, frame) ==
    IF ~self.pre_encode THEN Returned(frame)
    ELSE IF pred.fault = "pre_encode" THEN Raised
    ELSE Returned(PreEncodeHook(frame))

\* patch_image
PatchImage(self, pred, cast) ==
    LET frame_size == <<Width(pred.image), Height(pred.image)>>
        new_image  == GetNewImage(self, pred, frame_size)
        blended    == IF new_image.raised THEN Raised
                      ELSE PostWarpAdjustments(self, pred, new_image.value)
        scaled     == IF blended.raised THEN Raised
                      ELSE ScaleImage(self, pred, blended.value)
        quantized  == IF scaled.raised THEN Raised
                      ELSE Quantize(pred, scaled.value, cast)
    IN  IF quantized.raised THEN Raised
        ELSE PreEncode(self, pred, quantized.value)

\* the fallback taken from the working buffer instead of the item
FallbackFromPlaceholder(it) ==
    NewPlaceholder(it, <<Width(it["image"]), Height(it["image"])>>)

\* process, line 74: the image emitted for an item whose patch_image raised
FallbackImage(it) == it["image"]

\* process, lines 68-74: try patch_image, on an exception the original frame
ConvertedImage(self, it, cast) ==
    LET r == PatchImage(self, it, cast)
    IN  IF r.raised THEN FallbackImage(it) ELSE r.value

\* process, line 61
IsEOF(it) == it = EOF

----------------------------------------------------------------------------
(* Inputs *)

OutputScales == {50, 100, 150, 200}
ColorAdjustments == {"none", "avg_color"}
Scalings == {"none", "sharpen"}
Faults == {"none", "get_new_image", "post_warp_adjustments", "scale_image",
           "quantize", "pre_encode"}

Configs ==
    [draw_transparent : BOOLEAN,
     pre_encode       : BOOLEAN,
     output_scale     : OutputScales,
     color_adjustment : ColorAdjustments,
     scaling          : Scalings]

FramePatterns == {"checker", "flat"}

\* an 8-bit h x w x 3 frame
MakeFrame(w, h, pattern) ==
    [y \in 1..h |->
        [x \in 1..w |->
            IF pattern = "flat" THEN <<128, 64, 1>>
            ELSE IF (x + y) % 2 = 0 THEN <<MaxVal, MaxVal, MaxVal>>
            ELSE <<0, 0, 0>>]]

\* the i-th swapped face: 2 x 1 RGB for odd i, 1 x 1 RGBA (with a predicted
\* mask) for even i
SwappedFace(i) ==
    IF i % 2 = 1
    THEN << << <<Unit, Unit, Unit>>, <<Unit, Half, 0>> >> >>
    ELSE << << <<0, Half, Unit, Half>> >> >>

\* the i-th detected face; its matrix is the translation by 2 - i pixels, its
\* blend mask runs over [0, 1] for odd i and is 0.5 for even i
DetectedFace(i) ==
    [reference_face |->
        IF i % 2 = 1
        THEN << << <<Half, Half, Half>>, <<Unit, Unit, Unit>> >> >>
        ELSE << << <<Half, 0, Half>> >> >>,
     reference_matrix |-> << <<1, 0, 2 - i>>, <<0, 1, 0>> >>,
     reference_interpolators |-> <<"INTER_CUBIC", "INTER_AREA">>,
     landmarks_as_xy |-> << <<i - 1, 0>> >>,
     mask |->
        IF i % 2 = 1
        THEN << << <<0 - Half>>, <<Unit + Half>> >> >>
        ELSE << << <<Half>> >> >>]

\* an item of in_queue
WorkItem(filename, image, n_swapped, n_detected, fault) ==
    [filename       |-> filename,
     image          |-> image,
     swapped_faces  |-> [i \in 1..n_swapped |-> SwappedFace(i)],
     detected_faces |-> [i \in 1..n_detected |-> DetectedFace(i)],
     fault          |-> fault]

\* the items patch_image is run on by itself
PatchInputs ==
    {WorkItem("frame", MakeFrame(w, h, pat), n, m, "none") :
        w \in 1..MaxW, h \in 1..MaxH, pat \in FramePatterns,
        n \in 0..MaxFaces, m \in 0..MaxFaces}

\* the kinds of item the producer places on in_queue: a frame without faces,
\* one with a face, one whose face lists differ in length, and items on
\* which a collaborator raises
WorkKinds ==
    {<<"checker", 0, 0, "none">>, <<"checker", 2, 1, "none">>,
     <<"flat", 1, 1, "post_warp_adjustments">>, <<"flat", 1, 2, "pre_encode">>}

WorkerConfigs ==
    {c \in Configs : /\ c.output_scale = 100
                     /\ c.color_adjustment = "none"
                     /\ c.scaling = "none"
                     /\ ~c.draw_transparent}

Filename(i) == "frame_" \o ToString(i)

\* the i-th item of in_queue, of kind k
MakeItem(i, k) ==
    WorkItem(Filename(i), MakeFrame(2, 1, k[1]), k[2], k[3], k[4])

WorkLists ==
    UNION {[1..n -> WorkKinds] : n \in 0..MaxItems}

MakeWork(kinds) == [i \in 1..Len(kinds) |-> MakeItem(i, kinds[i])]

NoItem == [filename |-> "None"]

----------------------------------------------------------------------------
(* Converter.process run by the workers of a pool *)

Workers == DOMAIN pc

IdlePipeline ==
    /\ stage = "idle"
    /\ predicted = NoItem
    /\ placeholder = <<>>
    /\ face_i = 0
    /\ patched_face = <<>>
    /\ dims = <<>>

Init ==
    /\ cfg \in WorkerConfigs
    /\ \E kinds \in WorkLists : work = MakeWork(kinds)
    /\ converted = [it \in {work[i] : i \in 1..Len(work)} |->
                        [cast \in CastModes |->
                            [raised |-> PatchImage(cfg, it, cast).raised,
                             image  |-> ConvertedImage(cfg, it, cast)]]]
    /\ in_queue = Append(work, EOF)
    /\ out_queue = <<>>
    /\ popped = [f \in {in_queue[i].filename : i \in 1..Len(in_queue)} |-> 0]
    /\ \E n \in 1..MaxWorkers :
        /\ pc = [w \in 1..n |-> "get"]
        /\ item = [w \in 1..n |-> NoItem]
    /\ IdlePipeline

\* line 60: item = in_queue.get(), blocking while the queue is empty
Get(w) ==
    /\ pc[w] = "get"
    /\ in_queue # <<>>
    /\ item' = [item EXCEPT ![w] = Head(in_queue)]
    /\ in_queue' = Tail(in_queue)
    /\ popped' = [popped EXCEPT ![Head(in_queue).filename] = @ + 1]
    /\ pc' = [pc EXCEPT ![w] = "got"]
    /\ UNCHANGED <<cfg, out_queue, work, converted, pvars>>

\* the sentinel branch without in_queue.put(item)
RequeueEOFDropped(w) ==
    /\ pc[w] = "got"
    /\ IsEOF(item[w])
    /\ pc' = [pc EXCEPT ![w] = "done"]
    /\ UNCHANGED <<cfg, in_queue, out_queue, item, popped, work, converted, pvars>>

\* lines 61-65: the sentinel is put back on in_queue and the loop is left
RequeueEOF(w) ==
    /\ pc[w] = "got"
    /\ IsEOF(item[w])
    /\ in_queue' = Append(in_queue, item[w])
    /\ pc' = [pc EXCEPT ![w] = "done"]
    /\ UNCHANGED <<cfg, out_queue, item, popped, work, converted, pvars>>

\* the item's exception handled by `continue`: nothing is emitted for it
ConvertSkipFailed(w) ==
    /\ pc[w] = "got"
    /\ ~IsEOF(item[w])
    /\ \E cast \in CastModes :
        out_queue' = IF converted[item[w]][cast].raised THEN out_queue
                     ELSE Append(out_queue,
                            <<item[w].filename, converted[item[w]][cast].image>>)
    /\ pc' = [pc EXCEPT ![w] = "get"]
    /\ UNCHANGED <<cfg, in_queue, item, popped, work, converted, pvars>>

\* the item's exception left to escape the loop
ConvertFatal(w) ==
    /\ pc[w] = "got"
    /\ ~IsEOF(item[w])
    /\ \E cast \in CastModes :
        /\ out_queue' = IF converted[item[w]][cast].raised THEN out_queue
                        ELSE Append(out_queue,
                               <<item[w].filename, converted[item[w]][cast].image>>)
        /\ pc' = [pc EXCEPT ![w] = IF converted[item[w]][cast].raised
                                   THEN "done" ELSE "get"]
    /\ UNCHANGED <<cfg, in_queue, item, popped, work, converted, pvars>>

\* the failed item put back on in_queue after its fallback is emitted
ConvertRetry(w) ==
    /\ pc[w] = "got"
    /\ ~IsEOF(item[w])
    /\ \E cast \in CastModes :
        /\ out_queue' = Append(out_queue,
                            <<item[w].filename, converted[item[w]][cast].image>>)
        /\ in_queue' = IF converted[item[w]][cast].raised /\ popped[item[w].filename] < 2
                       THEN Append(in_queue, item[w]) ELSE in_queue
    /\ pc' = [pc EXCEPT ![w] = "get"]
    /\ UNCHANGED <<cfg, item, popped, work, converted, pvars>>

\* lines 66-82: patch the item, or fall back to its frame, and emit the pair
Convert(w) ==
    /\ pc[w] = "got"
    /\ ~IsEOF(item[w])
    /\ \E cast \in CastModes :
        out_queue' = Append(out_queue,
                            <<item[w].filename, converted[item[w]][cast].image>>)
    /\ pc' = [pc EXCEPT ![w] = "get"]
    /\ UNCHANGED <<cfg, in_queue, item, popped, work, converted, pvars>>

Next ==
    \/ \E w \in Workers : Get(w)
    \/ \E w \in Workers : RequeueEOF(w)
    \/ \E w \in Workers : Convert(w)

Spec == Init /\ [][Next]_vars

\* every worker that can take a step eventually takes one
FairSpec == Spec /\ \A w \in 1..MaxWorkers :
                        WF_vars(w \in Workers /\ (Get(w) \/ RequeueEOF(w) \/ Convert(w)))

----------------------------------------------------------------------------
(* Converter.patch_image run statement by statement on one item *)

FrameSize == <<Width(predicted.image), Height(predicted.image)>>

PatchInit ==
    /\ cfg \in Configs
    /\ predicted \in PatchInputs
    /\ stage = "patch_image"
    /\ placeholder = <<>>
    /\ face_i = 0
    /\ patched_face = <<>>
    /\ dims = <<>>
    /\ work = <<>>
    /\ converted = <<>>
    /\ in_queue = <<>>
    /\ out_queue = <<>>
    /\ pc = <<>>
    /\ item = <<>>
    /\ popped = <<>>

\* get_new_image, lines 103-106
BeginNewImage ==
    /\ stage = "patch_image"
    /\ placeholder' = NewPlaceholder(predicted, FrameSize)
    /\ face_i' = 0
    /\ stage' = "faces"
    /\ UNCHANGED <<cfg, wvars, predicted, patched_face, dims>>

\* get_new_image, lines 107-125: one pass of the loop
NextFace ==
    /\ stage = "faces"
    /\ face_i < ZipLen(predicted)
    /\ placeholder' = CompositeFace(cfg, placeholder,
                                    predicted.swapped_faces[face_i + 1],
                                    predicted.detected_faces[face_i + 1],
                                    FrameSize)
    /\ face_i' = face_i + 1
    /\ UNCHANGED <<cfg, wvars, stage, predicted, patched_face, dims>>

\* line 90: post_warp_adjustments on the finished placeholder
PostWarp ==
    /\ stage = "faces"
    /\ face_i = ZipLen(predicted)
    /\ LET r == PostWarpAdjustments(cfg, predicted, placeholder)
       IN  /\ stage' = IF r.raised THEN "raised" ELSE "blended"
           /\ patched_face' = r.value
    /\ UNCHANGED <<cfg, wvars, predicted, placeholder, face_i, dims>>

\* line 91: scale_image
Scale ==
    /\ stage = "blended"
    /\ LET r == ScaleImage(cfg, predicted, patched_face)
       IN  /\ stage' = IF r.raised THEN "raised" ELSE "scaled"
           /\ patched_face' = r.value
    /\ dims' = IF ScaleIsOne(cfg) THEN <<>> ELSE ScaleDims(cfg, patched_face)
    /\ UNCHANGED <<cfg, wvars, predicted, placeholder, face_i>>

\* line 92: quantization
QuantizeFrame ==
    /\ stage = "scaled"
    /\ \E cast \in CastModes :
        LET r == Quantize(predicted, patched_face, cast)
        IN  /\ stage' = IF r.raised THEN "raised" ELSE "quantized"
            /\ patched_face' = r.value
    /\ UNCHANGED <<cfg, wvars, predicted, placeholder, face_i, dims>>

\* lines 93-96: the pre-encode hook, and the return
Return ==
    /\ stage = "quantized"
    /\ LET r == PreEncode(cfg, predicted, patched_face)
       IN  /\ stage' = IF r.raised THEN "raised" ELSE "returned"
           /\ patched_face' = r.value
    /\ UNCHANGED <<cfg, wvars, predicted, placeholder, face_i, dims>>

PatchNext ==
    \/ BeginNewImage
    \/ NextFace
    \/ PostWarp
    \/ Scale
    \/ QuantizeFrame
    \/ Return

PatchSpec == PatchInit /\ [][PatchNext]_vars

----------------------------------------------------------------------------
(* Properties of process *)

AllStopped == \A w \in Workers : pc[w] = "done"

\* whether patch_image raises on the item
Raises(it) == \A cast \in CastModes : converted[it][cast].raised

\* the places of out_queue holding the result of work[i]
ResultsOf(i) == {k \in 1..Len(out_queue) : out_queue[k][1] = work[i].filename}

HeldBy(i) == {w \in Workers : pc[w] = "got" /\ item[w] = work[i]}

SentinelsQueued == {k \in 1..Len(in_queue) : IsEOF(in_queue[k])}
SentinelHolders == {w \in Workers : pc[w] = "got" /\ IsEOF(item[w])}

\* C1: with N workers on one in_queue that ends with the sentinel, every
\* worker eventually gets the sentinel, puts it back and stops; none waits
\* on in_queue.get forever (fair scheduling, patch_image returns or raises).
C1_Termination == <>AllStopped

C1_Witness ==
    /\ AllStopped
    /\ Cardinality(Workers) >= 2
    /\ Len(work) >= 1
    /\ Len(out_queue) = Len(work)

\* C2: every work item is got from in_queue by exactly one worker, exactly one
\* pair is put on out_queue for each item got, under the item's own filename;
\* the sentinel never reaches out_queue; when all workers have stopped,
\* out_queue has as many entries as there were work items.
C2_ExactlyOnce ==
    /\ \A i \in 1..Len(work) :
        /\ popped[work[i].filename] <= 1
        /\ Cardinality(HeldBy(i)) <= 1
        /\ Cardinality(ResultsOf(i)) =
              IF popped[work[i].filename] = 1 /\ HeldBy(i) = {} THEN 1 ELSE 0
    /\ \A k \in 1..Len(out_queue) :
        /\ out_queue[k][1] # EOF.filename
        /\ \E i \in 1..Len(work) : out_queue[k][1] = work[i].filename
    /\ AllStopped =>
        /\ Len(out_queue) = Len(work)
        /\ \A i \in 1..Len(work) : popped[work[i].filename] = 1

C2_Witness ==
    /\ AllStopped
    /\ Cardinality(Workers) >= 2
    /\ Len(work) >= 2
    /\ \E i \in 1..Len(work) : Raises(work[i])
    /\ \E k \in 1..Len(out_queue) : out_queue[k][1] # work[k].filename

\* C3: when patch_image raises for an item, the pair put on out_queue under
\* its filename holds the item's original frame, unchanged (nothing
\* composited, not scaled, no channel added), and the item does not return
\* to in_queue.
C3_FallbackIsOriginal ==
    \A i \in 1..Len(work) :
        /\ Raises(work[i]) =>
              \A k \in ResultsOf(i) : out_queue[k][2] = work[i].image
        /\ popped[work[i].filename] >= 1 =>
              \A k \in 1..Len(in_queue) : in_queue[k] # work[i]

C3_Witness ==
    \E i \in 1..Len(work) :
        /\ Raises(work[i])
        /\ ResultsOf(i) # {}
        /\ work[i].fault = "pre_encode"

\* C4: a worker leaves its loop only in the step in which it holds the
\* sentinel; a failure on a work item never ends the loop: the step that
\* handles a work item emits its result and takes the worker back to
\* in_queue.get.
C4_OnlySentinelStops ==
    [][\A w \in Workers :
          /\ (pc[w] # "done" /\ pc'[w] = "done") =>
                (pc[w] = "got" /\ IsEOF(item[w]))
          /\ (pc[w] = "got" /\ ~IsEOF(item[w]) /\ pc'[w] # "got") =>
                /\ pc'[w] = "get"
                /\ Len(out_queue') = Len(out_queue) + 1
                /\ out_queue'[Len(out_queue')][1] = item[w].filename]_vars

C4_Witness ==
    /\ Workers = {1}
    /\ Len(work) >= 2
    /\ Raises(work[1])
    /\ ResultsOf(1) # {}
    /\ pc[1] = "got"
    /\ item[1] = work[2]

\* C5: an item whose swapped_faces and detected_faces differ in length is
\* emitted as its original frame, like an item on which patch_image raised,
\* not as a frame composited from some of the faces (stated for a Converter
\* without a pre-encode hook, where results are plain frames).
C5_MismatchFallsBack ==
    \A i \in 1..Len(work) :
        (/\ Len(work[i].swapped_faces) # Len(work[i].detected_faces)
         /\ ~cfg.pre_encode)
        => \A k \in ResultsOf(i) : out_queue[k][2] = work[i].image

\* C10: exactly one sentinel exists in every state, on in_queue or held by
\* the one worker that got it and has not yet put it back; workers put
\* nothing but the sentinel on in_queue (what is queued besides it are work
\* items never yet got); when all workers have stopped in_queue holds the
\* sentinel and nothing else.
C10_SentinelConserved ==
    /\ Cardinality(SentinelsQueued) + Cardinality(SentinelHolders) = 1
    /\ \A k \in 1..Len(in_queue) :
          \/ IsEOF(in_queue[k])
          \/ \E i \in 1..Len(work) :
                in_queue[k] = work[i] /\ popped[work[i].filename] = 0
    /\ AllStopped => in_queue = <<EOF>>

C10_Witness ==
    /\ AllStopped
    /\ Cardinality(Workers) >= 2
    /\ popped[EOF.filename] >= 2
    /\ Len(work) >= 1

----------------------------------------------------------------------------
(* Properties of patch_image *)

NoFaces == predicted.swapped_faces = <<>> /\ predicted.detected_faces = <<>>

\* the colour channels of frame are those of the 8-bit image, pixel by pixel
SameColours(frame, image) ==
    /\ Height(frame) = Height(image)
    /\ Width(frame) = Width(image)
    /\ \A y \in 1..Height(image) : \A x \in 1..Width(image) :
          SubSeq(frame[y][x], 1, 3) = image[y][x]

\* the frame has 3 channels, or 4 with an all-zero fourth when transparent
ChannelsAsConfigured(frame) ==
    IF cfg.draw_transparent
    THEN /\ Channels(frame) = 4
         /\ \A y \in 1..Height(frame) : \A x \in 1..Width(frame) :
               frame[y][x][4] = 0
    ELSE Channels(frame) = 3

\* C6: for a scale other than 1 the dsize handed to the resize is
\* (round(W/2*scale)*2, round(H/2*scale)*2), both numbers even; for a scale
\* of 1 no resize happens and the blended frame is returned as it is.
C6_EvenDims ==
    /\ dims # <<>> =>
        /\ dims = <<2 * RoundHalfEven(Width(predicted.image) * cfg.output_scale, 200),
                    2 * RoundHalfEven(Height(predicted.image) * cfg.output_scale, 200)>>
        /\ dims[1] % 2 = 0
        /\ dims[2] % 2 = 0
    /\ (stage = "scaled" /\ ScaleIsOne(cfg)) =>
        /\ dims = <<>>
        /\ patched_face = PostWarpAdjustments(cfg, predicted, placeholder).value

\* C7 as claimed: for an item without swapped or detected faces patch_image
\* returns a frame whose colour channels are the original 8-bit values, with
\* 3 channels, or 4 with a zero fourth when draw_transparent is set.
C7_NoFacesOriginal ==
    (stage = "returned" /\ NoFaces) =>
        /\ SameColours(patched_face, predicted.image)
        /\ ChannelsAsConfigured(patched_face)

\* the scaling stage, when one is configured, hands back a frame of the
\* shape it was given whose alpha channel is still zero everywhere
ScalingKeepsAlphaZero ==
    Adjustments(cfg).scaling # None =>
        LET new_image == ScalingRun(placeholder)
        IN  /\ Height(new_image) = Height(placeholder)
            /\ Width(new_image) = Width(placeholder)
            /\ \A y \in 1..Height(new_image) : \A x \in 1..Width(new_image) :
                  new_image[y][x][4] = 0

\* C7 amended: the same, for a Converter whose scale is 1, that has no
\* pre-encode hook and whose scaling stage, if any, keeps the all-zero alpha
\* channel; every 8-bit value v survives v/255 -> round(x*255).
C7_NoFacesOriginalUnscaled ==
    (/\ stage = "returned"
     /\ NoFaces
     /\ ScaleIsOne(cfg)
     /\ ~cfg.pre_encode
     /\ ScalingKeepsAlphaZero) =>
        /\ SameColours(patched_face, predicted.image)
        /\ ChannelsAsConfigured(patched_face)
        /\ \A v \in 0..MaxVal :
              \A cast \in CastModes :
                  Quantize(predicted, Normalize(<< << <<v>> >> >>), cast).value
                      = << << <<v>> >> >>

C7_Witness ==
    /\ stage = "returned"
    /\ NoFaces
    /\ ScaleIsOne(cfg)
    /\ ~cfg.pre_encode
    /\ cfg.draw_transparent
    /\ cfg.scaling # "none"
    /\ ScalingKeepsAlphaZero
    /\ Width(predicted.image) >= 2
    /\ predicted.image[1][1] # predicted.image[1][2]

\* C8: in every configuration the buffer holds only values in [0.0, 1.0]
\* after each compositing step of patch_image, the buffer that is quantized
\* included.
C8_RangeInvariant ==
    /\ stage = "faces" => InUnitRange(placeholder)
    /\ stage \in {"blended", "scaled"} => InUnitRange(patched_face)

\* the (swapped, detected) pairs composited so far whose warped footprint
\* covers pixel (x, y)
Covering(x, y) ==
    {k \in 1..face_i :
        InFootprint(predicted.swapped_faces[k],
                    predicted.detected_faces[k].reference_matrix, x, y)}

Highest(S) == CHOOSE k \in S : \A j \in S : j <= k

\* C9: the pairs are composited in sequence order into the one placeholder:
\* a pixel covered by the footprint of one or more faces holds the RGB and
\* alpha of the highest-index face covering it (as written by that face's
\* pass, which ends with the clamp to [0, 1]); a pixel outside every
\* footprint holds the normalised original colour and alpha 0.
C9_LastFaceWins ==
    stage = "faces" =>
        \A y \in 1..Height(placeholder) : \A x \in 1..Width(placeholder) :
            IF Covering(x, y) = {}
            THEN placeholder[y][x] = Normalize(predicted.image)[y][x] \o <<0>>
            ELSE LET k == Highest(Covering(x, y))
                     s == WarpSource(predicted.detected_faces[k].reference_matrix, x, y)
                     new_face == AdjustedFace(cfg, predicted.swapped_faces[k],
                                              predicted.detected_faces[k])
                 IN  placeholder[y][x] =
                        [c \in 1..4 |-> Clip01(new_face[s[2] + 1][s[1] + 1][c])]

C9_Witness ==
    /\ stage = "faces"
    /\ face_i = ZipLen(predicted)
    /\ \E x \in 1..Width(placeholder) : Cardinality(Covering(x, 1)) >= 2
    /\ \E x \in 1..Width(placeholder) : Covering(x, 1) = {}
    /\ cfg.color_adjustment # "none"

====
